---- MODULE Spec2Model ----
(***************************************************************************)
(* Model of the two utilities of the repository:                           *)
(*   - "Tvara_task b/gemini_client.py": the command-line chat client       *)
(*     (module start-up, ask_gemini, the loop of main);                    *)
(*   - "tvara_task c/embedding_similarity.py": the PDF similarity script   *)
(*     (load_embedding_model, load_pdf_sentences, embed_sentences,         *)
(*     search_similar_sentences, display_results, main).                   *)
(* Strings whose characters matter are sequences of characters; a character *)
(* without a TLA+ spelling is written as its Python escape ("\\x0b").       *)
(***************************************************************************)
EXTENDS Integers, Sequences, FiniteSets, TLC

VARIABLES
    \* ---- chat client ----
    cpc,        \* position of the chat process: import / main / running / done /
                \* exited / crashed
    debug,      \* args.debug
    got_line,   \* TRUE when input() returned a line in the last iteration
    line,       \* that line, as returned by input() (<<>> when none was read)
    response,   \* the HTTP exchange of the last iteration (NoResponse: no call was made)
    exc,        \* the exception raised in the last iteration ("none": none)
    event,      \* what the last step printed: banner / help / usage / bye / skip /
                \* answer / error / interrupt / traceback
    turns,      \* iterations of the while loop run so far
    posts,      \* calls of requests.post issued so far
    answers,    \* answers printed so far
    errors,     \* "Error: ..." messages printed so far by the generic handler
    raws,       \* raw responses printed so far (debug)
    \* ---- similarity script ----
    spc,        \* position of the script: load_model / load_pdf / embed / search /
                \* display / done / exited
    pdf,        \* what is at PDF_PATH: [kind |-> "none"] until it is read, then a
                \* file with its pages' texts, a missing file, or an unreadable one
    sentences,  \* the sentence corpus
    sentence_embeddings, \* one embedding row per sentence
    query_embedding,     \* the embedding of the query
    top_k,      \* the top_k argument of search_similar_sentences
    scores,     \* cosine similarities, one per row
    order,      \* for each entry of ranked_results, the zip position it came from
    results,    \* the returned list of (sentence, score)
    shown,      \* number of results printed by display_results
    \* ---- both ----
    failure,    \* the failure of the error taxonomy that occurred ("none": none)
    message,    \* TRUE when the program itself printed a message for that failure
    raw_fault   \* TRUE when an exception left the program unhandled (traceback)

chatVars == <<cpc, debug, got_line, line, response, exc, event, turns, posts, answers, errors, raws>>
simVars == <<spc, pdf, sentences, sentence_embeddings, query_embedding, top_k, scores,
             order, results, shown>>
faultVars == <<failure, message, raw_fault>>
vars == <<chatVars, simVars, faultVars>>

\* ------------------------------------------------------------------ bounds
MaxTurns == 3
MaxPages == 2
MaxTextLen == 5
MaxN == 3
MaxTopK == 4
MaxArgs == 2

\* ------------------------------------------------------------ text helpers
RECURSIVE SeqsUpTo(_, _)
\* all sequences over S of length at most n
SeqsUpTo(S, n) ==
    IF n = 0 THEN {<<>>}
    ELSE LET shorter == SeqsUpTo(S, n - 1)
         IN shorter \cup {Append(t, c) : t \in {u \in shorter : Len(u) = n - 1}, c \in S}

Upper == <<"A","B","C","D","E","F","G","H","I","J","K","L","M",
           "N","O","P","Q","R","S","T","U","V","W","X","Y","Z">>
Lowercase == <<"a","b","c","d","e","f","g","h","i","j","k","l","m",
               "n","o","p","q","r","s","t","u","v","w","x","y","z">>

\* the characters str.strip() removes: those for which str.isspace() holds
Whitespace ==
    {"\t", "\n", "\\x0b", "\f", "\r", "\\x1c", "\\x1d", "\\x1e", "\\x1f", " ",
     "\\x85", "\\xa0", "\\u1680", "\\u2000", "\\u2001", "\\u2002", "\\u2003",
     "\\u2004", "\\u2005", "\\u2006", "\\u2007", "\\u2008", "\\u2009", "\\u200a",
     "\\u2028", "\\u2029", "\\u202f", "\\u205f", "\\u3000"}

\* cased characters outside A-Z with what str.lower() makes of them: E acute,
\* capital I with dot above (two characters), the Kelvin sign, Cyrillic capital
\* zhe.  The other cased characters of Unicode are not among the characters of
\* the model.
OtherCased ==
    { <<"\\xc9", <<"\\xe9">> >>,
      <<"\\u0130", <<"i", "\\u0307">> >>,
      <<"\\u212a", <<"k">> >>,
      <<"\\u0416", <<"\\u0436">> >> }

\* c.lower() for one character c: a string of one or two characters
LowerChar(c) ==
    IF \E i \in 1..Len(Upper) : Upper[i] = c
    THEN <<Lowercase[CHOOSE i \in 1..Len(Upper) : Upper[i] = c]>>
    ELSE IF \E p \in OtherCased : p[1] = c
    THEN (CHOOSE p \in OtherCased : p[1] = c)[2]
    ELSE <<c>>

RECURSIVE Lower(_)
\* str.lower()
Lower(s) == IF s = <<>> THEN <<>> ELSE LowerChar(Head(s)) \o Lower(Tail(s))

RECURSIVE LStrip(_)
LStrip(s) == IF s # <<>> /\ Head(s) \in Whitespace THEN LStrip(Tail(s)) ELSE s

RECURSIVE RStrip(_)
RStrip(s) ==
    IF s # <<>> /\ s[Len(s)] \in Whitespace THEN RStrip(SubSeq(s, 1, Len(s) - 1)) ELSE s

\* str.strip()
Strip(s) == RStrip(LStrip(s))

\* ------------------------------------------------------------- chat client
\* console lines offered to input(); input() drops the line terminator
InputLines ==
    { <<>>,
      <<" ", "\t">>,
      <<"\\x0b">>,
      <<"\\x0b","e","x","i","t","\\x1f">>,
      <<"\\xa0","h","i","\\u3000">>,
      <<"e","x","i","t">>,
      <<"E","X","I","T">>,
      <<"E","X","\\u0130","T">>,
      <<" ","Q","u","i","t"," ">>,
      <<"q","u","i","t","\r">>,
      <<"e","x","i","t","s">>,
      <<"e","x"," ","i","t">>,
      <<" ","h","i">> }

Sentinels == { <<"e","x","i","t">>, <<"q","u","i","t">> }

\* decoded JSON values: [t |-> "obj", v |-> record], [t |-> "arr", v |-> sequence],
\* [t |-> "str", v |-> sequence of characters], [t |-> "null"]
Obj(r) == [t |-> "obj", v |-> r]
Arr(q) == [t |-> "arr", v |-> q]
Str(c) == [t |-> "str", v |-> c]
Null == [t |-> "null"]

FullBody ==
    Obj([candidates |->
        Arr(<<Obj([content |-> Obj([parts |-> Arr(<<Obj([text |-> Str(<<"o", "k">>)])>>)])])>>)])

\* bodies that response.json() can decode to
JsonBodies ==
    { FullBody,
      Obj([error |-> Str(<<"n", "o">>)]),
      Obj([candidates |-> Arr(<<>>)]),
      Obj([candidates |-> Null]),
      Obj([candidates |-> Str(<<"h", "i">>)]),
      Obj([candidates |-> Arr(<<Obj([finishReason |-> Str(<<"S">>)])>>)]),
      Obj([candidates |-> Arr(<<Obj([content |-> Obj([role |-> Str(<<"m">>)])])>>)]),
      Obj([candidates |-> Arr(<<Obj([content |-> Obj([parts |-> Arr(<<>>)])])>>)]),
      Obj([candidates |->
          Arr(<<Obj([content |-> Obj([parts |-> Arr(<<Obj([inlineData |-> Str(<<"b">>)])>>)])])>>)]),
      Arr(<<>>),
      Null }

\* bodies that come with a status other than 200
OtherBodies == {FullBody, Obj([error |-> Str(<<"n", "o">>)])}

\* statuses of a response: success, one below 400 that is not a success and
\* whose body is delivered (300 Multiple Choices, without a Location to follow),
\* client errors, a server error; 1xx, 204 and 304 arrive without a body and
\* are not drawn
Statuses == {200, 300, 400, 429, 500}

NoResponse == [transport |-> "none"]

\* what requests.post can come back with: no connection, no answer within the
\* timeout, or a response with a status and a body that is JSON or is not
Responses ==
    { [transport |-> "refused"], [transport |-> "timeout"] }
    \cup [transport : {"ok"}, status : {200}, json : {TRUE}, data : JsonBodies]
    \cup [transport : {"ok"}, status : Statuses \ {200}, json : {TRUE}, data : OtherBodies]
    \cup [transport : {"ok"}, status : Statuses, json : {FALSE}, data : {Str(<<"h", "t", "m", "l">>)}]

\* requests.Response.raise_for_status: an error for 4xx and 5xx
RaisesForStatus(status) == status >= 400 /\ status < 600

\* r[key] for a string key, r the outcome of the lookups before it
GetItem(r, key) ==
    IF r.exc # "none" THEN r
    ELSE IF r.val.t = "obj"
         THEN IF key \in DOMAIN r.val.v THEN [exc |-> "none", val |-> r.val.v[key]]
              ELSE [exc |-> "KeyError", val |-> Null]
    ELSE [exc |-> "TypeError", val |-> Null]

\* r[0], r the outcome of the lookups before it
GetFirst(r) ==
    IF r.exc # "none" THEN r
    ELSE IF r.val.t = "arr"
         THEN IF Len(r.val.v) >= 1 THEN [exc |-> "none", val |-> r.val.v[1]]
              ELSE [exc |-> "IndexError", val |-> Null]
    ELSE IF r.val.t = "obj" THEN [exc |-> "KeyError", val |-> Null]
    ELSE IF r.val.t = "str"
         THEN IF r.val.v # <<>> THEN [exc |-> "none", val |-> Str(<<Head(r.val.v)>>)]
              ELSE [exc |-> "IndexError", val |-> Null]
    ELSE [exc |-> "TypeError", val |-> Null]

\* data["candidates"][0]["content"]["parts"][0]["text"]
ExtractText(data) ==
    LET candidates == GetItem([exc |-> "none", val |-> data], "candidates")
        content == GetItem(GetFirst(candidates), "content")
        parts == GetItem(content, "parts")
    IN GetItem(GetFirst(parts), "text")

\* an ask_gemini that posts a second time when the first exchange failed
AskGeminiRetry(resp) ==
    LET e == IF resp.transport = "refused" THEN "ConnectionError"
             ELSE IF resp.transport = "timeout" THEN "Timeout"
             ELSE IF RaisesForStatus(resp.status) THEN "HTTPError"
             ELSE IF ~resp.json THEN "JSONDecodeError"
             ELSE ExtractText(resp.data).exc
    IN [posts |-> IF e = "none" THEN 1 ELSE 2, exc |-> e]

\* ask_gemini: one requests.post, raise_for_status, json(), the text lookup.
\* posts: calls of requests.post made; exc: the exception that leaves it.
AskGemini(resp) ==
    [posts |-> 1,
     exc |-> IF resp.transport = "refused" THEN "ConnectionError"
             ELSE IF resp.transport = "timeout" THEN "Timeout"
             ELSE IF RaisesForStatus(resp.status) THEN "HTTPError"
             ELSE IF ~resp.json THEN "JSONDecodeError"
             ELSE ExtractText(resp.data).exc]

\* the exceptions that derive from BaseException and not from Exception;
\* every other exception is taken by an except Exception clause
NotExceptionSubclasses ==
    {"BaseException", "BaseExceptionGroup", "CancelledError", "GeneratorExit",
     "KeyboardInterrupt", "SystemExit"}

\* handlers that treat the end of input as a reason to leave the loop
HandlerEofLeaves(e) ==
    IF e \in {"KeyboardInterrupt", "EOFError"} THEN "interrupt"
    ELSE IF e \notin NotExceptionSubclasses THEN "generic"
    ELSE "uncaught"

\* the except clauses of main's loop: which one takes exception e
Handler(e) ==
    IF e = "KeyboardInterrupt" THEN "interrupt"
    ELSE IF e \notin NotExceptionSubclasses THEN "generic"
    ELSE "uncaught"

\* a sentinel test that compares without lower()
IsSentinelCaseSensitive(prompt) == prompt \in Sentinels

\* prompt.lower() in {"exit", "quit"}
IsSentinel(prompt) == Lower(prompt) \in Sentinels

\* the failure of the taxonomy an exception of the chat client stands for
ChatFailure(e) ==
    IF e \in {"ConnectionError", "Timeout", "HTTPError"} THEN "TransportError"
    ELSE IF e \in {"JSONDecodeError", "KeyError", "IndexError", "TypeError"}
         THEN "UnexpectedResponseShape"
    ELSE "none"

\* exception e leaves the try block of the loop body
Raised(e) ==
    LET h == Handler(e) IN
    /\ exc' = e
    /\ cpc' = IF h = "generic" THEN "running" ELSE IF h = "interrupt" THEN "done" ELSE "crashed"
    /\ event' = IF h = "generic" THEN "error"
                ELSE IF h = "interrupt" THEN "interrupt" ELSE "traceback"
    /\ errors' = errors + (IF h = "generic" THEN 1 ELSE 0)
    /\ raw_fault' = (h = "uncaught")
    /\ failure' = ChatFailure(e)
    /\ message' = (ChatFailure(e) # "none" /\ h = "generic")

InLoop == cpc = "running" /\ turns < MaxTurns

\* the lines that reach ask_gemini: not exit or quit, not empty after strip()
PromptLines == {l \in InputLines : ~IsSentinel(Strip(l)) /\ Strip(l) # <<>>}

\* KeyboardInterrupt raised in the try block of the loop body; again: Ctrl-C
\* is pressed once more while its handler prints, outside any try block
Interrupted(again) ==
    IF again /\ Handler("KeyboardInterrupt") # "uncaught"
    THEN /\ exc' = "KeyboardInterrupt"
         /\ cpc' = "crashed"
         /\ event' = "traceback"
         /\ raw_fault' = TRUE
         /\ failure' = "none" /\ message' = FALSE
         /\ UNCHANGED errors
    ELSE Raised("KeyboardInterrupt")

\* the arguments of the command line the model offers
ArgTokens == {"-d", "--debug", "--deb", "-h", "--help", "--bogus", "extra"}

\* parser.parse_args(): help wins, then an unrecognized argument is an error,
\* else debug is set by -d, --debug or an abbreviation of it
ParseArgs(argv) ==
    IF \E i \in 1..Len(argv) : argv[i] \in {"-h", "--help"}
    THEN [exit |-> TRUE, code |-> 0, debug |-> FALSE]
    ELSE IF \E i \in 1..Len(argv) : argv[i] \in {"--bogus", "extra"}
    THEN [exit |-> TRUE, code |-> 2, debug |-> FALSE]
    ELSE [exit |-> FALSE, code |-> 0,
          debug |-> \E i \in 1..Len(argv) : argv[i] \in {"-d", "--debug", "--deb"}]

\* module start-up with GEMINI_API_KEY set
ImportOk ==
    /\ cpc = "import"
    /\ cpc' = "main"
    /\ UNCHANGED <<debug, got_line, line, response, exc, event, turns, posts, answers,
                   errors, raws>>
    /\ UNCHANGED <<simVars, faultVars>>

\* main up to the loop: the arguments are parsed, the banner is printed; -h
\* and a wrong argument end the process through SystemExit
StartMain ==
    /\ cpc = "main"
    /\ \E argv \in SeqsUpTo(ArgTokens, MaxArgs) :
        LET r == ParseArgs(argv) IN
        /\ debug' = r.debug
        /\ cpc' = IF r.exit THEN "exited" ELSE "running"
        /\ exc' = IF r.exit THEN "SystemExit" ELSE "none"
        /\ event' = IF ~r.exit THEN "banner" ELSE IF r.code = 0 THEN "help" ELSE "usage"
    /\ UNCHANGED <<got_line, line, response, turns, posts, answers, errors, raws>>
    /\ UNCHANGED <<simVars, faultVars>>

\* Ctrl-C before the loop is entered: no try block is around it
InterruptAtStartup ==
    /\ cpc \in {"import", "main"}
    /\ cpc' = "crashed"
    /\ exc' = "KeyboardInterrupt"
    /\ event' = "traceback"
    /\ raw_fault' = TRUE
    /\ failure' = "none" /\ message' = FALSE
    /\ UNCHANGED <<debug, got_line, line, response, turns, posts, answers, errors, raws>>
    /\ UNCHANGED simVars

\* module start-up without GEMINI_API_KEY: RuntimeError raised at import, uncaught
ImportMissingKey ==
    /\ cpc = "import"
    /\ cpc' = "crashed"
    /\ exc' = "RuntimeError"
    /\ event' = "traceback"
    /\ failure' = "MissingCredential"
    /\ message' = FALSE
    /\ raw_fault' = TRUE
    /\ UNCHANGED <<debug, got_line, line, response, turns, posts, answers, errors,
                   raws>>
    /\ UNCHANGED simVars

\* an iteration that reads exit or quit
ReadSentinel ==
    /\ InLoop
    /\ \E l \in InputLines :
        /\ IsSentinel(Strip(l))
        /\ got_line' = TRUE /\ line' = l
    /\ response' = NoResponse
    /\ exc' = "none"
    /\ event' = "bye"
    /\ cpc' = "done"
    /\ turns' = turns + 1
    /\ failure' = "none" /\ message' = FALSE /\ raw_fault' = FALSE
    /\ UNCHANGED <<debug, posts, answers, errors, raws>>
    /\ UNCHANGED simVars

\* an iteration that reads a line that is empty after strip()
ReadEmpty ==
    /\ InLoop
    /\ \E l \in InputLines :
        /\ ~IsSentinel(Strip(l))
        /\ Strip(l) = <<>>
        /\ got_line' = TRUE /\ line' = l
    /\ response' = NoResponse
    /\ exc' = "none"
    /\ event' = "skip"
    /\ turns' = turns + 1
    /\ failure' = "none" /\ message' = FALSE /\ raw_fault' = FALSE
    /\ UNCHANGED <<cpc, debug, posts, answers, errors, raws>>
    /\ UNCHANGED simVars

\* an iteration that reads a prompt and calls ask_gemini, which returns or raises
Ask ==
    /\ InLoop
    /\ \E l \in PromptLines, resp \in Responses :
        /\ got_line' = TRUE /\ line' = l
        /\ response' = resp
        /\ LET r == AskGemini(resp) IN
            /\ posts' = posts + r.posts
            /\ IF r.exc = "none"
               THEN /\ exc' = "none"
                    /\ event' = "answer"
                    /\ answers' = answers + 1
                    /\ raws' = raws + (IF debug THEN 1 ELSE 0)
                    /\ failure' = "none" /\ message' = FALSE /\ raw_fault' = FALSE
                    /\ UNCHANGED <<cpc, errors>>
               ELSE /\ Raised(r.exc)
                    /\ UNCHANGED <<answers, raws>>
    /\ turns' = turns + 1
    /\ UNCHANGED debug
    /\ UNCHANGED simVars

\* an iteration whose input() raises EOFError (standard input is at its end)
InputEOF ==
    /\ InLoop
    /\ got_line' = FALSE /\ line' = <<>>
    /\ response' = NoResponse
    /\ Raised("EOFError")
    /\ turns' = turns + 1
    /\ UNCHANGED <<debug, posts, answers, raws>>
    /\ UNCHANGED simVars

\* Ctrl-C while input() waits
InterruptAtInput ==
    /\ InLoop
    /\ got_line' = FALSE /\ line' = <<>>
    /\ response' = NoResponse
    /\ \E again \in BOOLEAN : Interrupted(again)
    /\ turns' = turns + 1
    /\ UNCHANGED <<debug, posts, answers, raws>>
    /\ UNCHANGED simVars

\* Ctrl-C after input() has returned a line and before requests.post is
\* called (while the line is examined, Bye is printed or the payload is built)
InterruptAfterRead ==
    /\ InLoop
    /\ \E l \in InputLines : got_line' = TRUE /\ line' = l
    /\ response' = NoResponse
    /\ \E again \in BOOLEAN : Interrupted(again)
    /\ turns' = turns + 1
    /\ UNCHANGED <<debug, posts, answers, raws>>
    /\ UNCHANGED simVars

\* Ctrl-C while requests.post waits for the response
InterruptDuringAsk ==
    /\ InLoop
    /\ \E l \in PromptLines :
        /\ got_line' = TRUE /\ line' = l
    /\ response' = NoResponse
    /\ posts' = posts + AskGemini([transport |-> "timeout"]).posts
    /\ \E again \in BOOLEAN : Interrupted(again)
    /\ turns' = turns + 1
    /\ UNCHANGED <<debug, answers, raws>>
    /\ UNCHANGED simVars

\* Ctrl-C after the response has arrived: while it is decoded, or while the
\* answer, the raw response or the separator is printed
InterruptAfterResponse ==
    /\ InLoop
    /\ \E l \in PromptLines, resp \in Responses :
        /\ resp.transport = "ok"
        /\ got_line' = TRUE /\ line' = l
        /\ response' = resp
        /\ posts' = posts + AskGemini(resp).posts
        /\ \E a \in {0, 1}, w \in {0, 1} :
            /\ a = 1 => AskGemini(resp).exc = "none"
            /\ w = 1 => (a = 1 /\ debug)
            /\ answers' = answers + a
            /\ raws' = raws + w
    /\ \E again \in BOOLEAN : Interrupted(again)
    /\ turns' = turns + 1
    /\ UNCHANGED debug
    /\ UNCHANGED simVars

\* Ctrl-C while the generic handler prints its message (outside the try
\* block): the iteration raised e, from input() or from ask_gemini
InterruptInErrorHandler ==
    /\ InLoop
    /\ \/ /\ Handler("EOFError") = "generic"
          /\ got_line' = FALSE /\ line' = <<>>
          /\ response' = NoResponse
          /\ failure' = ChatFailure("EOFError")
          /\ \E n \in {0, 1} :
              /\ errors' = errors + n
              /\ message' = (n = 1 /\ ChatFailure("EOFError") # "none")
          /\ UNCHANGED posts
       \/ \E l \in PromptLines, resp \in Responses :
          LET r == AskGemini(resp) IN
          /\ r.exc # "none"
          /\ Handler(r.exc) = "generic"
          /\ got_line' = TRUE /\ line' = l
          /\ response' = resp
          /\ posts' = posts + r.posts
          /\ failure' = ChatFailure(r.exc)
          /\ \E n \in {0, 1} :
              /\ errors' = errors + n
              /\ message' = (n = 1 /\ ChatFailure(r.exc) # "none")
    /\ exc' = "KeyboardInterrupt"
    /\ cpc' = "crashed"
    /\ event' = "traceback"
    /\ raw_fault' = TRUE
    /\ turns' = turns + 1
    /\ UNCHANGED <<debug, answers, raws>>
    /\ UNCHANGED simVars

SimIdle ==
    /\ spc = "off"
    /\ pdf = [kind |-> "none"]
    /\ sentences = <<>>
    /\ sentence_embeddings = <<>>
    /\ query_embedding = <<>>
    /\ top_k = 0
    /\ scores = <<>>
    /\ order = <<>>
    /\ results = <<>>
    /\ shown = 0

NoFault == failure = "none" /\ message = FALSE /\ raw_fault = FALSE

InitChat ==
    /\ cpc = "import"
    /\ debug = FALSE
    /\ got_line = FALSE /\ line = <<>>
    /\ response = NoResponse
    /\ exc = "none"
    /\ event = "none"
    /\ turns = 0 /\ posts = 0 /\ answers = 0 /\ errors = 0 /\ raws = 0
    /\ SimIdle
    /\ NoFault

NextChat ==
    \/ ImportOk
    \/ ImportMissingKey
    \/ StartMain
    \/ InterruptAtStartup
    \/ ReadSentinel
    \/ ReadEmpty
    \/ Ask
    \/ InputEOF
    \/ InterruptAtInput
    \/ InterruptAfterRead
    \/ InterruptDuringAsk
    \/ InterruptAfterResponse
    \/ InterruptInErrorHandler

SpecChat == InitChat /\ [][NextChat]_vars

\* ------------------------------------------------------- similarity script
TOP_K == 3

\* characters of the text pypdf extracts from a page
PageChars == {"a", "b", " ", "\n", "\\x0b"}

\* page i of n when text is cut at the positions cut[1] <= ... <= cut[n-1]
PagesOf(text, cut, n) ==
    [i \in 1..n |-> SubSeq(text, (IF i = 1 THEN 0 ELSE cut[i - 1]) + 1,
                                 IF i = n THEN Len(text) ELSE cut[i])]

\* the PDFs of n pages whose pages hold at most MaxTextLen characters in all
FilePdfs(n) ==
    IF n = 0 THEN { [kind |-> "file", pages |-> <<>>] }
    ELSE { [kind |-> "file", pages |-> PagesOf(tc[1], tc[2], n)] :
             tc \in { x \in SeqsUpTo(PageChars, MaxTextLen) \X [1..(n - 1) -> 0..MaxTextLen] :
                        /\ \A i \in 1..(n - 1) : x[2][i] <= Len(x[1])
                        /\ \A i \in 1..(n - 2) : x[2][i] <= x[2][i + 1] } }

\* what PdfReader(PDF_PATH) can meet other than a readable file
NoFilePdfs == { [kind |-> "missing"], [kind |-> "unreadable"] }

RECURSIVE Split(_, _)
\* str.split(sep) for a one-character sep: the pieces between the separators
Split(text, sep) ==
    IF \A i \in 1..Len(text) : text[i] # sep THEN <<text>>
    ELSE LET i == CHOOSE j \in 1..Len(text) :
                      text[j] = sep /\ \A h \in 1..(j - 1) : text[h] # sep
         IN <<SubSeq(text, 1, i - 1)>> \o Split(SubSeq(text, i + 1, Len(text)), sep)

RECURSIVE ReadPages(_)
\* text = ""; for page in reader.pages: text += page.extract_text() + "\n"
ReadPages(pages) ==
    IF pages = <<>> THEN <<>>
    ELSE Head(pages) \o <<"\n">> \o ReadPages(Tail(pages))

RECURSIVE CleanLinesKeepRaw(_)
\* a comprehension that filters on line.strip() but keeps line as it is
CleanLinesKeepRaw(lines) ==
    IF lines = <<>> THEN <<>>
    ELSE (IF Strip(Head(lines)) # <<>> THEN <<Head(lines)>> ELSE <<>>)
         \o CleanLinesKeepRaw(Tail(lines))

RECURSIVE CleanLines(_)
\* [line.strip() for line in lines if line.strip()]
CleanLines(lines) ==
    IF lines = <<>> THEN <<>>
    ELSE (IF Strip(Head(lines)) # <<>> THEN <<Strip(Head(lines))>> ELSE <<>>)
         \o CleanLines(Tail(lines))

\* load_pdf_sentences: the sentences returned, or the exception handled and the
\* exit through sys.exit(1)
LoadPdfSentences(p) ==
    IF p.kind = "missing"
    THEN [exc |-> "FileNotFoundError", exit |-> TRUE, sentences |-> <<>>]
    ELSE IF p.kind = "unreadable"
    THEN [exc |-> "PdfReadError", exit |-> TRUE, sentences |-> <<>>]
    ELSE LET found == CleanLines(Split(ReadPages(p.pages), "\n"))
         IN IF found = <<>>
            THEN [exc |-> "ValueError", exit |-> TRUE, sentences |-> <<>>]
            ELSE [exc |-> "none", exit |-> FALSE, sentences |-> found]

\* the failure of the taxonomy an exception of load_pdf_sentences stands for
PdfFailure(e) ==
    IF e = "FileNotFoundError" THEN "FileNotFound"
    ELSE IF e = "ValueError" THEN "EmptyDocument"
    ELSE IF e = "PdfReadError" THEN "UnreadableDocument"
    ELSE "none"

\* main, step 1: load_embedding_model returns the model
LoadModelOk ==
    /\ spc = "load_model"
    /\ spc' = "load_pdf"
    /\ UNCHANGED <<pdf, sentences, sentence_embeddings, query_embedding, top_k, scores,
                   order, results, shown>>
    /\ UNCHANGED <<chatVars, faultVars>>

\* main, step 1: SentenceTransformer(...) raises; the message is printed, sys.exit(1)
LoadModelFails ==
    /\ spc = "load_model"
    /\ spc' = "exited"
    /\ failure' = "ModelLoadFailure"
    /\ message' = TRUE
    /\ raw_fault' = FALSE
    /\ UNCHANGED <<pdf, sentences, sentence_embeddings, query_embedding, top_k, scores,
                   order, results, shown>>
    /\ UNCHANGED chatVars

\* main, step 2: load_pdf_sentences(PDF_PATH) and the listing of the sentences
LoadPdf ==
    /\ spc = "load_pdf"
    /\ \E n \in 0..MaxPages :
       \E p \in NoFilePdfs \cup FilePdfs(n) :
        LET r == LoadPdfSentences(p) IN
        /\ pdf' = p
        /\ sentences' = r.sentences
        /\ spc' = IF r.exit THEN "exited" ELSE "embed"
        /\ failure' = PdfFailure(r.exc)
        /\ message' = r.exit
        /\ raw_fault' = FALSE
    /\ UNCHANGED <<sentence_embeddings, query_embedding, top_k, scores, order, results, shown>>
    /\ UNCHANGED chatVars

ChatIdle ==
    /\ cpc = "off"
    /\ debug = FALSE
    /\ got_line = FALSE /\ line = <<>>
    /\ response = NoResponse
    /\ exc = "none"
    /\ event = "none"
    /\ turns = 0 /\ posts = 0 /\ answers = 0 /\ errors = 0 /\ raws = 0

InitPdf ==
    /\ spc = "load_model"
    /\ pdf = [kind |-> "none"]
    /\ sentences = <<>>
    /\ sentence_embeddings = <<>>
    /\ query_embedding = <<>>
    /\ top_k = 0
    /\ scores = <<>>
    /\ order = <<>>
    /\ results = <<>>
    /\ shown = 0
    /\ ChatIdle
    /\ NoFault

NextPdf ==
    \/ LoadModelOk
    \/ LoadModelFails
    \/ LoadPdf

SpecPdf == InitPdf /\ [][NextPdf]_vars

\* unit vectors of the plane with whole coordinates: embeddings are produced
\* with normalize_embeddings=True, so every row and the query have norm 1
Vec == { <<1, 0>>, <<0, 1>>, <<-1, 0>>, <<0, -1>> }

\* the sentences a corpus is drawn from: trimmed and non-empty
SentenceTexts == { <<"a">>, <<"b">>, <<"a", " ", "b">> }

Corpora == SeqsUpTo(SentenceTexts, MaxN) \ {<<>>}

\* f"passage: {s}"
Passage(s) == <<"p","a","s","s","a","g","e",":"," ">> \o s

\* sklearn's cosine_similarity of two vectors; both have norm 1 here, where it
\* is their dot product
Cosine(x, y) == x[1] * y[1] + x[2] * y[2]

\* cosine_similarity([query_embedding], sentence_embeddings)[0]
CosineSimilarity(q, rows) == [i \in 1..Len(rows) |-> Cosine(q, rows[i])]

Reverse(s) == [i \in 1..Len(s) |-> s[Len(s) + 1 - i]]

RECURSIVE InsertAscending(_, _, _)
\* i put into the ascending list of positions, behind every position whose key
\* is less than or equal to its own
InsertAscending(sorted, i, keys) ==
    IF sorted = <<>> THEN <<i>>
    ELSE IF keys[Head(sorted)] <= keys[i]
         THEN <<Head(sorted)>> \o InsertAscending(Tail(sorted), i, keys)
         ELSE <<i>> \o sorted

RECURSIVE StableSortAscending(_, _)
\* the stable ascending sort of the positions in list by their keys
StableSortAscending(list, keys) ==
    IF list = <<>> THEN <<>>
    ELSE InsertAscending(StableSortAscending(SubSeq(list, 1, Len(list) - 1), keys),
                         list[Len(list)], keys)

\* a descending order obtained by sorting ascending and reversing the result
SortedAscendingThenReversed(keys) ==
    Reverse(StableSortAscending([i \in 1..Len(keys) |-> i], keys))

\* an order obtained without reverse=True
SortedAscending(keys) == StableSortAscending([i \in 1..Len(keys) |-> i], keys)

\* sorted(..., key=..., reverse=True): the list is reversed, sorted ascending
\* by a stable sort and reversed again.  The result lists, for each place of
\* the sorted list, the position of the input it holds.
SortedReverse(keys) ==
    Reverse(StableSortAscending(Reverse([i \in 1..Len(keys) |-> i]), keys))

Min(a, b) == IF a <= b THEN a ELSE b
Max(a, b) == IF a >= b THEN a ELSE b

\* a slice that forgets to cut
SliceAll(list, k) == list

\* list[:k]
Slice(list, k) ==
    IF k >= 0 THEN SubSeq(list, 1, Min(k, Len(list)))
    ELSE SubSeq(list, 1, Max(Len(list) + k, 0))

\* pairs that take the sentences in corpus order beside the sorted scores
PairsScoresOnlySorted(sents, scs, ord) ==
    [j \in 1..Len(ord) |-> <<sents[j], scs[ord[j]]>>]

\* the (sentence, score) pairs of zip(sentences, scores) in the order ord
Pairs(sents, scs, ord) ==
    [j \in 1..Len(ord) |-> <<sents[ord[j]], scs[ord[j]]>>]

\* main, step 3: embed_sentences; encode is a function of the passage text
EmbedSentences ==
    /\ spc = "embed"
    /\ \E encode \in [{Passage(t) : t \in SentenceTexts} -> Vec] :
        sentence_embeddings' = [i \in 1..Len(sentences) |-> encode[Passage(sentences[i])]]
    /\ spc' = "search"
    /\ UNCHANGED <<pdf, sentences, query_embedding, top_k, scores, order, results, shown>>
    /\ UNCHANGED <<chatVars, faultVars>>

\* main, step 4: search_similar_sentences(model, QUERY, sentences,
\* sentence_embeddings, top_k); main passes TOP_K, other callers any count
SearchSimilarSentences ==
    /\ spc = "search"
    /\ \E q \in Vec, k \in (0..MaxTopK) \cup {TOP_K} :
        LET sc == CosineSimilarity(q, sentence_embeddings)
            n == Min(Len(sentences), Len(sc))
            ord == SortedReverse(SubSeq(sc, 1, n))
        IN /\ query_embedding' = q
           /\ top_k' = k
           /\ scores' = sc
           /\ order' = Slice(ord, k)
           /\ results' = Slice(Pairs(sentences, sc, ord), k)
    /\ spc' = "display"
    /\ UNCHANGED <<pdf, sentences, sentence_embeddings, shown>>
    /\ UNCHANGED <<chatVars, faultVars>>

\* main, step 5: display_results prints every result
DisplayResults ==
    /\ spc = "display"
    /\ shown' = Len(results)
    /\ spc' = "done"
    /\ UNCHANGED <<pdf, sentences, sentence_embeddings, query_embedding, top_k, scores,
                   order, results>>
    /\ UNCHANGED <<chatVars, faultVars>>

\* the script after load_pdf_sentences has returned a corpus
InitRank ==
    /\ spc = "embed"
    /\ pdf = [kind |-> "none"]
    /\ sentences \in Corpora
    /\ sentence_embeddings = <<>>
    /\ query_embedding = <<>>
    /\ top_k = 0
    /\ scores = <<>>
    /\ order = <<>>
    /\ results = <<>>
    /\ shown = 0
    /\ ChatIdle
    /\ NoFault

NextRank ==
    \/ EmbedSentences
    \/ SearchSimilarSentences
    \/ DisplayResults

SpecRank == InitRank /\ [][NextRank]_vars

\* ================================================================== claims
\* ---- vocabulary of the claims, stated without the operators of the model

Range(f) == {f[i] : i \in DOMAIN f}

\* s and t are the same text up to the case of their letters
SameIgnoringCase(s, t) ==
    /\ Len(s) = Len(t)
    /\ \A i \in 1..Len(s) :
        \/ s[i] = t[i]
        \/ \E j \in 1..Len(Upper) : {s[i], t[i]} = {Upper[j], Lowercase[j]}

Visible(l) == {i \in 1..Len(l) : l[i] \notin Whitespace}

IsBlank(l) == Visible(l) = {}

\* l without the whitespace before its first and after its last visible character
Trimmed(l) ==
    IF IsBlank(l) THEN <<>>
    ELSE SubSeq(l, CHOOSE i \in Visible(l) : \A j \in Visible(l) : i <= j,
                   CHOOSE i \in Visible(l) : \A j \in Visible(l) : i >= j)

IsSentinelLine(l) == \E w \in Sentinels : SameIgnoringCase(Trimmed(l), w)

IsPromptLine(l) == ~IsBlank(l) /\ ~IsSentinelLine(l)

Iteration == cpc = "running" /\ turns' = turns + 1

Searched == spc \in {"display", "done"}

Position(i) == CHOOSE j \in 1..Len(order) : order[j] = i

\* the response holds candidates[0].content.parts[0].text
HasTextPath(r) ==
    /\ r.json
    /\ r.data.t = "obj" /\ "candidates" \in DOMAIN r.data.v
    /\ LET c == r.data.v.candidates IN
        /\ c.t = "arr" /\ Len(c.v) >= 1
        /\ c.v[1].t = "obj" /\ "content" \in DOMAIN c.v[1].v
        /\ LET n == c.v[1].v.content IN
            /\ n.t = "obj" /\ "parts" \in DOMAIN n.v
            /\ n.v.parts.t = "arr" /\ Len(n.v.parts.v) >= 1
            /\ n.v.parts.v[1].t = "obj" /\ "text" \in DOMAIN n.v.parts.v[1].v

FailedExchange(r) ==
    \/ r.transport \in {"refused", "timeout"}
    \/ /\ r.transport = "ok"
       /\ (r.status \notin 200..299 \/ ~HasTextPath(r))

\* the failures of the taxonomy after which the process must stop
FatalFailures ==
    {"MissingCredential", "FileNotFound", "EmptyDocument", "ModelLoadFailure"}

\* the pages' texts with a newline between one page and the next
RECURSIVE JoinPages(_)
JoinPages(ps) ==
    IF ps = <<>> THEN <<>>
    ELSE IF Len(ps) = 1 THEN ps[1]
    ELSE ps[1] \o <<"\n">> \o JoinPages(Tail(ps))

\* the positions of text that end a line, with 0 before the first line
Breaks(text) == {0} \cup {i \in 1..Len(text) : text[i] = "\n"}

\* the line of text that starts behind the break b
LineAfter(text, b) ==
    LET ends == {c \in Breaks(text) \cup {Len(text) + 1} : c > b}
        e == CHOOSE c \in ends : \A d \in ends : c <= d
    IN SubSeq(text, b + 1, e - 1)

DotProduct(x, y) == x[1] * y[1] + x[2] * y[2]

\* C5: an input line that after trimming is exit or quit in any letter case ends
\* the loop in that iteration, and no network call is made for it; unless
\* Ctrl-C cuts the iteration short, the loop ends by the break after Bye.
SentinelEndsLoopWithoutCall ==
    [][(Iteration /\ got_line' /\ IsSentinelLine(line'))
        => /\ cpc' # "running"
           /\ posts' = posts /\ response' = NoResponse
           /\ exc' \in {"none", "KeyboardInterrupt"}
           /\ exc' = "none" => (cpc' = "done" /\ event' = "bye")]_vars

SentinelWitness ==
    /\ cpc = "done" /\ event = "bye"
    /\ line = <<" ","Q","u","i","t"," ">>
    /\ turns = 3 /\ posts = 2

\* C6: an iteration whose exchange fails (no connection, timeout, a status
\* outside 2xx, or a 2xx body without candidates[0].content.parts[0].text)
\* and is not cut short by Ctrl-C prints an error and no answer, and the loop
\* goes on to prompt again.
TurnFailureIsIsolated ==
    [][(Iteration /\ FailedExchange(response') /\ exc' # "KeyboardInterrupt")
        => /\ event' = "error"
           /\ errors' = errors + 1
           /\ answers' = answers /\ raws' = raws
           /\ cpc' = "running"
           /\ ~raw_fault']_vars

\* C7: every failure of the taxonomy prints a message of the program and leaves
\* no unhandled exception; after a fatal one the process has stopped and no
\* later step has run (no network call, no embedding, no ranking).
FailuresAreReported ==
    /\ failure # "none" => (message /\ ~raw_fault)
    /\ failure \in FatalFailures =>
        /\ cpc \in {"off", "crashed"} /\ spc \in {"off", "exited"}
        /\ posts = 0
        /\ sentence_embeddings = <<>> /\ scores = <<>> /\ results = <<>>

\* C8: an iteration makes one call of requests.post when it read a line that is
\* neither blank nor a sentinel, whether the call succeeds or fails, and makes
\* none otherwise; after a blank line the loop prompts again; so the calls made
\* equal the prompts read.
OnePostPerPrompt ==
    [][Iteration =>
        /\ posts' = posts + (IF got_line' /\ IsPromptLine(line') THEN 1 ELSE 0)
        /\ (got_line' /\ IsBlank(line')) => cpc' = "running"]_vars

\* C8 with the iteration that Ctrl-C ends: an iteration that is not ended by
\* Ctrl-C makes one call of requests.post when it read a line that is neither
\* blank nor a sentinel, whether the call succeeds or fails, and none
\* otherwise, and after a blank line the loop prompts again; an iteration that
\* Ctrl-C ends makes that call or, when Ctrl-C comes before it, none, and makes
\* none for a blank line; so the calls made equal the prompts read, or are one
\* less after an interrupt before the call.
OnePostPerPromptUnlessInterrupted ==
    [][Iteration =>
        LET n == IF got_line' /\ IsPromptLine(line') THEN 1 ELSE 0 IN
        /\ IF exc' = "KeyboardInterrupt"
           THEN posts' \in {posts, posts + n}
           ELSE posts' = posts + n
        /\ (got_line' /\ IsBlank(line')) =>
            /\ posts' = posts
            /\ response' = NoResponse
            /\ exc' \in {"none", "KeyboardInterrupt"}
            /\ exc' = "none" => (cpc' = "running" /\ event' = "skip")
            /\ exc' = "KeyboardInterrupt" => cpc' # "running"]_vars

\* the first iteration read a prompt and Ctrl-C ended it before the call
InterruptedPromptWitness ==
    /\ turns = 1 /\ posts = 0
    /\ cpc = "done" /\ event = "interrupt" /\ exc = "KeyboardInterrupt"
    /\ got_line /\ line = <<"E","X","\\u0130","T">> /\ response = NoResponse

\* a call, a failed call and a blank line, after which the loop still runs
OnePostWitness ==
    /\ turns = 3 /\ posts = 2 /\ errors = 1 /\ answers = 1
    /\ cpc = "running" /\ event = "skip" /\ got_line /\ line = <<"\\x0b">>

\* the first iteration read a blank line and Ctrl-C ended it
InterruptedBlankWitness ==
    /\ turns = 1 /\ posts = 0
    /\ cpc = "done" /\ event = "interrupt" /\ exc = "KeyboardInterrupt"
    /\ got_line /\ line = <<"\\x0b">>

\* C9: the corpus load_pdf_sentences returns is the sequence of the non-blank
\* lines of the pages' texts joined by newlines, each trimmed, in their order.
CorpusIsTheTrimmedLines ==
    (spc = "embed" /\ pdf.kind = "file") =>
        LET text == JoinPages(pdf.pages)
            kept == {b \in Breaks(text) : ~IsBlank(LineAfter(text, b))}
        IN /\ Len(sentences) = Cardinality(kept)
           /\ \A b \in kept :
                sentences[Cardinality({c \in kept : c < b}) + 1]
                    = Trimmed(LineAfter(text, b))
           /\ \A k \in 1..Len(sentences) :
                /\ ~IsBlank(sentences[k])
                /\ sentences[k][1] \notin Whitespace
                /\ sentences[k][Len(sentences[k])] \notin Whitespace

CorpusWitness ==
    /\ spc = "embed"
    /\ pdf = [kind |-> "file", pages |-> << <<" ", "a", "\n">>, <<"\\x0b", "b">> >>]
    /\ sentences = << <<"a">>, <<"b">> >>

\* C10: the loop leaves its running state only in an iteration that read a
\* sentinel line or was interrupted from the keyboard; an iteration whose
\* input() raises at the end of input is handled and stays in the loop.
LoopLeavesOnlyBySentinelOrInterrupt ==
    [][/\ (cpc = "running" /\ cpc' # "running")
            => ((got_line' /\ IsSentinelLine(line')) \/ exc' = "KeyboardInterrupt")
       /\ (Iteration /\ exc' = "EOFError")
            => (cpc' = "running" /\ event' = "error" /\ errors' = errors + 1)]_vars

EndOfInputWitness ==
    /\ cpc = "running" /\ turns = 3 /\ errors = 3
    /\ exc = "EOFError" /\ ~got_line /\ posts = 0

\* C1: with N sentences and N scores the search returns top_k results when
\* top_k <= N and N results when top_k > N.
ResultCount ==
    (Searched /\ Len(scores) = Len(sentences)) =>
        Len(results) = (IF top_k <= Len(sentences) THEN top_k ELSE Len(sentences))

ResultCountWitness ==
    /\ spc = "done" /\ Len(sentences) = 3 /\ Len(scores) = 3
    /\ top_k = 4 /\ Len(results) = 3 /\ shown = 3

ResultCountCutWitness ==
    /\ spc = "done" /\ Len(sentences) = 3 /\ Len(scores) = 3
    /\ top_k = 2 /\ Len(results) = 2

\* C2: the scores of the results never increase along the list, and no
\* sentence left out of the results scores higher than a returned one.
ResultsAreTheTopK ==
    Searched =>
        /\ \A j \in 1..(Len(results) - 1) : results[j][2] >= results[j + 1][2]
        /\ \A i \in 1..Len(sentences) : i \notin Range(order) =>
              \A j \in 1..Len(results) : scores[i] <= results[j][2]

TopKWitness ==
    /\ spc = "done" /\ Len(sentences) = 3 /\ Len(results) = 2
    /\ results[1][2] > results[2][2]
    /\ \E i \in 1..3 : i \notin Range(order) /\ scores[i] < results[2][2]
    /\ order[1] > order[2]

\* C3: of two sentences with the same score, the one earlier in the corpus
\* comes earlier in the ranking, also after the cut to top_k.
RankingIsStable ==
    Searched =>
        \A i, j \in 1..Len(sentences) :
            (i < j /\ scores[i] = scores[j] /\ j \in Range(order))
                => (i \in Range(order) /\ Position(i) < Position(j))

StableWitness ==
    /\ spc = "done" /\ Len(sentences) = 3 /\ top_k = 2
    /\ scores[1] = scores[2] /\ scores[2] = scores[3]
    /\ order = <<1, 2>>

StableTieBelowWitness ==
    /\ spc = "done" /\ Len(sentences) = 3 /\ top_k = 3
    /\ scores[1] = scores[3] /\ scores[2] > scores[1]
    /\ order = <<2, 1, 3>>

\* C4: every result is (sentences[i], similarity of the query with row i) for
\* a position i of the corpus, distinct results come from distinct positions,
\* and there is one embedding row per sentence.
PairsKeepCorrespondence ==
    /\ spc \in {"search", "display", "done"} => Len(sentence_embeddings) = Len(sentences)
    /\ Searched =>
        /\ Len(order) = Len(results)
        /\ \A j \in 1..Len(results) :
            /\ order[j] \in 1..Len(sentences)
            /\ results[j] = <<sentences[order[j]],
                              DotProduct(query_embedding, sentence_embeddings[order[j]])>>
        /\ \A j, h \in 1..Len(results) : j # h => order[j] # order[h]

CorrespondenceWitness ==
    /\ spc = "done" /\ Len(results) = 3
    /\ order = <<3, 1, 2>>
    /\ results[1][1] # results[2][1] /\ results[2][1] # results[3][1]
    /\ results[1][2] > results[3][2]

====
